---------------------------- MODULE Spec2Model ----------------------------
(***************************************************************************)
(* Model of the socketcan-rs frame codec (src/src/socketcan.rs), the       *)
(* CANOpen protocol layer (src/src/canopen.rs) and the error-frame decoder *)
(* (src/src/err.rs).                                                       *)
(*                                                                         *)
(* A u32 is represented by the set of its set bit positions (a subset of   *)
(* 0..31): 0x80000000 does not fit a model integer.  Bitwise AND is set    *)
(* intersection, bitwise OR is set union, and the unsigned order is the    *)
(* order of the highest differing bit.  A u8 is an integer in 0..255.      *)
(***************************************************************************)
EXTENDS Integers, Sequences, FiniteSets, TLC

\* ------------------------------------------------------------------ bounds
\* number of leading payload bytes that range freely over ByteSamples
FreeBytes == 1
\* longest payload handed to CANFrame::new (one more than a frame can hold)
MaxPayloadLen == 9

\* ------------------------------------------------------------- u32 / u8
\* the u32 whose value is n, for 0 <= n < 2^31
Bits(n) == {i \in 0..30 : (n \div (2^i)) % 2 = 1}

And(a, b) == a \cap b

Or(a, b) == a \cup b

\* the value of the bits of b below bit 31
Val(b) ==
  LET sum[i \in 0..31] ==
        IF i = 0 THEN 0
        ELSE sum[i - 1] + (IF (i - 1) \in b THEN 2^(i - 1) ELSE 0)
  IN  sum[31]

\* unsigned a > b: the highest bit in which they differ is set in a
Gt(a, b) ==
  LET diff == (a \ b) \cup (b \ a)
  IN  diff # {} /\ (CHOOSE i \in diff : \A j \in diff : j <= i) \in a

\* ------------------------------------------------------------ constants
EFF_FLAG == {31}      \* 0x80000000

RTR_FLAG == {30}      \* 0x40000000

ERR_FLAG == {29}      \* 0x20000000

SFF_MASK == 0..10     \* 0x000007ff

EFF_MASK == 0..28     \* 0x1fffffff

ERR_MASK == 0..28     \* 0x1fffffff

\* ---------------------------------------------------------- result values
Ok(v) == [tag |-> "Ok", val |-> v]

Err(e) == [tag |-> "Err", val |-> e]

\* an abort of the calling thread (unwrap of Err, index out of bounds)
Panic(why) == [tag |-> "Panic", val |-> why]

None == [tag |-> "None", val |-> "none"]

\* ------------------------------------------------------------- CANFrame
\* the [u8; 8] buffer filled from a slice of at most 8 bytes
full_data(data) == [n \in 1..8 |-> IF n <= Len(data) THEN data[n] ELSE 0]

CANFrame_new_NoPromote(id, data, rtr, err) ==
  IF Len(data) > 8 THEN Err("TooMuchData")
  ELSE IF Gt(id, EFF_MASK) THEN Err("IDTooLarge")
  ELSE Ok([id |-> Or(id,
                     Or(IF rtr THEN RTR_FLAG ELSE {},
                        IF err THEN ERR_FLAG ELSE {})),
           data_len |-> Len(data), pad |-> 0, res0 |-> 0, res1 |-> 0,
           data |-> full_data(data)])

CANFrame_new_IdFirst(id, data, rtr, err) ==
  IF Gt(id, EFF_MASK) THEN Err("IDTooLarge")
  ELSE IF Len(data) > 8 THEN Err("TooMuchData")
  ELSE Ok([id |-> Or(Or(id, IF Gt(id, SFF_MASK) THEN EFF_FLAG ELSE {}),
                     Or(IF rtr THEN RTR_FLAG ELSE {},
                        IF err THEN ERR_FLAG ELSE {})),
           data_len |-> Len(data), pad |-> 0, res0 |-> 0, res1 |-> 0,
           data |-> full_data(data)])

CANFrame_new_NoIdCheck(id, data, rtr, err) ==
  IF Len(data) > 8 THEN Err("TooMuchData")
  ELSE Ok([id |-> Or(Or(id, IF Gt(id, SFF_MASK) THEN EFF_FLAG ELSE {}),
                     Or(IF rtr THEN RTR_FLAG ELSE {},
                        IF err THEN ERR_FLAG ELSE {})),
           data_len |-> Len(data), pad |-> 0, res0 |-> 0, res1 |-> 0,
           data |-> full_data(data)])

CANFrame_new_PromoteAtMask(id, data, rtr, err) ==
  IF Len(data) > 8 THEN Err("TooMuchData")
  ELSE IF Gt(id, EFF_MASK) THEN Err("IDTooLarge")
  ELSE Ok([id |-> Or(Or(id, IF Gt(id, SFF_MASK) \/ id = SFF_MASK
                            THEN EFF_FLAG ELSE {}),
                     Or(IF rtr THEN RTR_FLAG ELSE {},
                        IF err THEN ERR_FLAG ELSE {})),
           data_len |-> Len(data), pad |-> 0, res0 |-> 0, res1 |-> 0,
           data |-> full_data(data)])

CANFrame_new(id, data, rtr, err) ==
  IF Len(data) > 8 THEN Err("TooMuchData")
  ELSE IF Gt(id, EFF_MASK) THEN Err("IDTooLarge")
  ELSE Ok([id |-> Or(Or(id, IF Gt(id, SFF_MASK) THEN EFF_FLAG ELSE {}),
                     Or(IF rtr THEN RTR_FLAG ELSE {},
                        IF err THEN ERR_FLAG ELSE {})),
           data_len |-> Len(data), pad |-> 0, res0 |-> 0, res1 |-> 0,
           data |-> full_data(data)])

is_extended(f) == And(f.id, EFF_FLAG) # {}

is_error(f) == And(f.id, ERR_FLAG) # {}

is_rtr(f) == And(f.id, RTR_FLAG) # {}

CANFrame_id(f) ==
  IF is_extended(f) THEN And(f.id, EFF_MASK) ELSE And(f.id, SFF_MASK)

CANFrame_err(f) == And(f.id, ERR_MASK)

CANFrame_data(f) == SubSeq(f.data, 1, f.data_len)

raw_data(f) == f.data

CANFrame_len(f) == f.data_len

\* ------------------------------------------------------ protocol layer
PDOs == {"PDO1", "PDO2", "PDO3", "PDO4"}

get_from_device_id(pdo) ==
  CASE pdo = "PDO1" -> Bits(\h180)
    [] pdo = "PDO2" -> Bits(\h280)
    [] pdo = "PDO3" -> Bits(\h380)
    [] pdo = "PDO4" -> Bits(\h480)

get_to_device_id_FromDevice(pdo) == get_from_device_id(pdo)

get_to_device_id(pdo) ==
  CASE pdo = "PDO1" -> Bits(\h200)
    [] pdo = "PDO2" -> Bits(\h300)
    [] pdo = "PDO3" -> Bits(\h400)
    [] pdo = "PDO4" -> Bits(\h500)

NMTState_from(raw) ==
  CASE raw = \h04 -> "Stopped"
    [] raw = \h05 -> "Operational"
    [] raw = \h7f -> "PreOperational"
    [] OTHER -> "Initializing"

NMTCommands ==
  {"GoToOperational", "GoToStopped", "GoToPreOperational", "ResetNode",
   "ResetCommunication"}

NMTCommand_into_u8_Shifted(command) ==
  CASE command = "GoToOperational" -> \h01
    [] command = "GoToStopped" -> \h02
    [] command = "GoToPreOperational" -> \h80
    [] command = "ResetNode" -> \h82
    [] command = "ResetCommunication" -> \h81

NMTCommand_into_u8(command) ==
  CASE command = "GoToOperational" -> \h01
    [] command = "GoToStopped" -> \h02
    [] command = "GoToPreOperational" -> \h80
    [] command = "ResetNode" -> \h81
    [] command = "ResetCommunication" -> \h82

\* CANOpenNodeMessage variants
SyncReceived == [kind |-> "SyncReceived"]

PDOReceived(pdo, data, len) ==
  [kind |-> "PDOReceived", pdo |-> pdo, data |-> data, len |-> len]

NMTReceived(state) == [kind |-> "NMTReceived", state |-> state]

\* MessageParseError::InvalidID
InvalidID(id) == [kind |-> "InvalidID", id |-> id]

\* slice[0]: aborts when the slice is empty
FirstByte(slice) ==
  IF Len(slice) > 0 THEN Ok(slice[1]) ELSE Panic("index out of bounds")

InvalidID_arm_Unmasked(frame, frame_id) == Err(InvalidID(CANFrame_id(frame)))

\* the value carried by the `_ =>` arm of try_from
InvalidID_arm(frame, frame_id) == Err(InvalidID(frame_id))

\* impl TryFrom<CANFrame> for CANOpenNodeMessage
try_from(frame) ==
  LET frame_id == And(CANFrame_id(frame), Bits(\hf80))
  IN  CASE frame_id = Bits(\h80) -> Ok(SyncReceived)
        [] frame_id = Bits(\h180) ->
             Ok(PDOReceived("PDO1", raw_data(frame), CANFrame_len(frame)))
        [] frame_id = Bits(\h280) ->
             Ok(PDOReceived("PDO2", raw_data(frame), CANFrame_len(frame)))
        [] frame_id = Bits(\h380) ->
             Ok(PDOReceived("PDO3", raw_data(frame), CANFrame_len(frame)))
        [] frame_id = Bits(\h480) ->
             Ok(PDOReceived("PDO4", raw_data(frame), CANFrame_len(frame)))
        [] frame_id = Bits(\h700) ->
             LET b == FirstByte(CANFrame_data(frame))
             IN  IF b.tag = "Ok" THEN Ok(NMTReceived(NMTState_from(b.val)))
                 ELSE b
        [] OTHER -> InvalidID_arm(frame, frame_id)

\* Result::unwrap
unwrap(r) == IF r.tag = "Ok" THEN r ELSE Panic("unwrap on Err")

\* CANOpenNodeCommand variants (the fields after the node id of SendSDO are
\* ignored by the conversion and are left out)
SendPDO(id, pdo, data, size) ==
  [kind |-> "SendPDO", id |-> id, pdo |-> pdo, data |-> data, size |-> size]

SendNMT(id, command) == [kind |-> "SendNMT", id |-> id, command |-> command]

SendSDO(id) == [kind |-> "SendSDO", id |-> id]

\* impl From<CANOpenNodeCommand> for CANFrame; the result is Ok(frame), or
\* Panic when the conversion aborts
CANFrame_from(command) ==
  CASE command.kind = "SendPDO" ->
         IF command.size > 8 THEN Panic("slice index out of range")
         ELSE unwrap(CANFrame_new(
                Or(get_to_device_id(command.pdo), Bits(command.id)),
                SubSeq(command.data, 1, command.size), FALSE, FALSE))
    [] command.kind = "SendNMT" ->
         unwrap(CANFrame_new(Or(Bits(\h700), Bits(command.id)),
                             <<NMTCommand_into_u8(command.command)>>,
                             FALSE, FALSE))
    [] command.kind = "SendSDO" ->
         unwrap(CANFrame_new(Or(Bits(\h580), Bits(command.id)), <<>>,
                             FALSE, FALSE))

\* ------------------------------------------------------- error decoder
get_data_RawBuffer(frame, idx) ==
  IF idx < 8 THEN Ok(frame.data[idx + 1])
  ELSE Err([kind |-> "NotEnoughData", idx |-> idx])

\* get_data: byte idx of the payload, or NotEnoughData(idx)
get_data(frame, idx) ==
  IF idx < Len(CANFrame_data(frame)) THEN Ok(CANFrame_data(frame)[idx + 1])
  ELSE Err([kind |-> "NotEnoughData", idx |-> idx])

ControllerProblem_try_from(val) ==
  CASE val = \h00 -> Ok("Unspecified")
    [] val = \h01 -> Ok("ReceiveBufferOverflow")
    [] val = \h02 -> Ok("TransmitBufferOverflow")
    [] val = \h04 -> Ok("ReceiveErrorWarning")
    [] val = \h08 -> Ok("TransmitErrorWarning")
    [] val = \h10 -> Ok("ReceiveErrorPassive")
    [] val = \h20 -> Ok("TransmitErrorPassive")
    [] val = \h40 -> Ok("Active")
    [] OTHER -> Err([kind |-> "InvalidControllerProblem"])

ViolationType_try_from(val) ==
  CASE val = \h00 -> Ok("Unspecified")
    [] val = \h01 -> Ok("SingleBitError")
    [] val = \h02 -> Ok("FrameFormatError")
    [] val = \h04 -> Ok("BitStuffingError")
    [] val = \h08 -> Ok("UnableToSendDominantBit")
    [] val = \h10 -> Ok("UnableToSendRecessiveBit")
    [] val = \h20 -> Ok("BusOverload")
    [] val = \h40 -> Ok("Active")
    [] val = \h80 -> Ok("TransmissionError")
    [] OTHER -> Err([kind |-> "InvlaidViolationType"])

Location_try_from(val) ==
  CASE val = \h00 -> Ok("Unspecified")
    [] val = \h03 -> Ok("StartOfFrame")
    [] val = \h02 -> Ok("Id2821")
    [] val = \h06 -> Ok("Id2018")
    [] val = \h04 -> Ok("SubstituteRtr")
    [] val = \h05 -> Ok("IdentifierExtension")
    [] val = \h07 -> Ok("Id1713")
    [] val = \h0F -> Ok("Id1205")
    [] val = \h0E -> Ok("Id0400")
    [] val = \h0C -> Ok("Rtr")
    [] val = \h0D -> Ok("Reserved1")
    [] val = \h09 -> Ok("Reserved0")
    [] val = \h0B -> Ok("DataLengthCode")
    [] val = \h0A -> Ok("DataSection")
    [] val = \h08 -> Ok("CrcSequence")
    [] val = \h18 -> Ok("CrcDelimiter")
    [] val = \h19 -> Ok("AckSlot")
    [] val = \h1B -> Ok("AckDelimiter")
    [] val = \h1A -> Ok("EndOfFrame")
    [] val = \h12 -> Ok("Intermission")
    [] OTHER -> Err([kind |-> "InvalidLocation"])

TransceiverError_try_from(val) ==
  CASE val = \h00 -> Ok("Unspecified")
    [] val = \h04 -> Ok("CanHighNoWire")
    [] val = \h05 -> Ok("CanHighShortToBat")
    [] val = \h06 -> Ok("CanHighShortToVcc")
    [] val = \h07 -> Ok("CanHighShortToGnd")
    [] val = \h40 -> Ok("CanLowNoWire")
    [] val = \h50 -> Ok("CanLowShortToBat")
    [] val = \h60 -> Ok("CanLowShortToVcc")
    [] val = \h70 -> Ok("CanLowShortToGnd")
    [] val = \h80 -> Ok("CanLowShortToCanHigh")
    [] OTHER -> Err([kind |-> "InvalidTransceiverError"])

get_ControllerProblem_Byte0(frame) ==
  LET d == get_data(frame, 0)
  IN  IF d.tag = "Ok" THEN ControllerProblem_try_from(d.val) ELSE d

\* get_data(frame, 1).and_then(ControllerProblem::try_from)
get_ControllerProblem(frame) ==
  LET d == get_data(frame, 1)
  IN  IF d.tag = "Ok" THEN ControllerProblem_try_from(d.val) ELSE d

\* get_data(frame, 2).and_then(ViolationType::try_from)
get_ViolationType(frame) ==
  LET d == get_data(frame, 2)
  IN  IF d.tag = "Ok" THEN ViolationType_try_from(d.val) ELSE d

\* get_data(frame, 3).and_then(Location::try_from)
get_Location(frame) ==
  LET d == get_data(frame, 3)
  IN  IF d.tag = "Ok" THEN Location_try_from(d.val) ELSE d

UnknownErrorType_arm_AsUnknown(e) == Ok([kind |-> "Unknown", code |-> e])

\* the `e =>` arm of the match of CANError::from_frame
UnknownErrorType_arm(e) == Err([kind |-> "UnknownErrorType", code |-> e])

\* the `match frame.err()` of CANError::from_frame
from_frame_match(frame) ==
  LET e == CANFrame_err(frame)
  IN  CASE e = Bits(\h1) -> Ok([kind |-> "TransmitTimeout"])
        [] e = Bits(\h2) ->
             LET d == get_data(frame, 0)
             IN  IF d.tag = "Ok"
                 THEN Ok([kind |-> "LostArbitration", bit |-> d.val])
                 ELSE d
        [] e = Bits(\h4) ->
             LET p == get_ControllerProblem(frame)
             IN  IF p.tag = "Ok"
                 THEN Ok([kind |-> "ControllerProblem", problem |-> p.val])
                 ELSE p
        [] e = Bits(\h8) ->
             LET vtype == get_ViolationType(frame)
                 location == get_Location(frame)
             IN  IF vtype.tag # "Ok" THEN vtype
                 ELSE IF location.tag # "Ok" THEN location
                 ELSE Ok([kind |-> "ProtocolViolation", vtype |-> vtype.val,
                          location |-> location.val])
        [] e = Bits(\h10) -> Ok([kind |-> "TransceiverError"])
        [] e = Bits(\h20) -> Ok([kind |-> "NoAck"])
        [] e = Bits(\h40) -> Ok([kind |-> "BusOff"])
        [] e = Bits(\h80) -> Ok([kind |-> "BusError"])
        [] e = Bits(\h100) -> Ok([kind |-> "Restarted"])
        [] OTHER -> UnknownErrorType_arm(e)

from_frame_NoFlagCheck(frame) == from_frame_match(frame)

\* CANError::from_frame
from_frame(frame) ==
  IF ~is_error(frame) THEN Err([kind |-> "NotAnError"])
  ELSE from_frame_match(frame)

\* ------------------------------------------------------------- inputs
ByteSamples == {\h04, \h05, \h7f, \h99}

\* the byte at position i (counted from 1) of a sampled payload, past the
\* free bytes
Fill(i) == \ha0 + i

Payloads ==
  UNION {{[i \in 1..n |-> IF i <= FreeBytes THEN free[i] ELSE Fill(i)] :
            free \in [1..FreeBytes -> ByteSamples]} : n \in 0..MaxPayloadLen}

\* payloads a frame can hold
FramePayloads == {p \in Payloads : Len(p) <= 8}

\* [u8; 8] buffers of a SendPDO command
Buffers == {p \in Payloads : Len(p) = 8}

\* the sixteen values of (identifier AND 0xF80) of an 11-bit identifier
FunctionCodes == {Bits(k * 128) : k \in 0..15}

\* low 7 bits of a sampled identifier
NodeSamples == {\h00, \h7f}

\* error class codes of an error frame: the nine defined ones, zero, a code
\* with two class bits, and an undefined class bit
ErrorCodes ==
  {Bits(\h1), Bits(\h2), Bits(\h4), Bits(\h8), Bits(\h10), Bits(\h20),
   Bits(\h40), Bits(\h80), Bits(\h100), Bits(\h0), Bits(\h3), Bits(\h200)}

\* identifiers within the 29-bit range
ValidIds ==
  {Or(fc, Bits(n)) : fc \in FunctionCodes, n \in NodeSamples}
    \cup ErrorCodes
    \cup {Bits(\h800), Bits(\h999), Bits(\h10080), Bits(\h12345700),
          EFF_MASK}

\* identifiers above 0x1FFFFFFF: 0x20000000, 0x20000080, 0x80000000,
\* 0xFFFFFFFF
LargeIds == {{29}, Or({29}, Bits(\h80)), {31}, 0..31}

IdSamples == ValidIds \cup LargeIds

\* raw identifier fields of frames read from the bus: a standard frame
\* carries an 11-bit identifier
WireIds ==
  {raw \in {Or(id, flags) : id \in ValidIds, flags \in SUBSET {29, 30, 31}} :
     31 \in raw \/ ~Gt(And(raw, EFF_MASK), SFF_MASK)}

\* values swept at position pos (counted from 1) of the payload of an error
\* frame: the values of the table that reads the position and values
\* outside it
ErrByteSweep(pos) ==
  CASE pos = 1 -> {\h00, \h07, \hff}
    [] pos = 2 -> {\h00, \h01, \h02, \h04, \h08, \h10, \h20, \h40,
                   \h03, \h80, \h99}
    [] pos = 3 -> {\h00, \h01, \h02, \h04, \h08, \h10, \h20, \h40, \h80,
                   \h03, \h99}
    [] pos = 4 -> {\h00, \h03, \h02, \h06, \h04, \h05, \h07, \h0F, \h0E,
                   \h0C, \h0D, \h09, \h0B, \h0A, \h08, \h18, \h19, \h1B,
                   \h1A, \h12, \h01, \h10, \h99}
    [] pos = 5 -> {\h00, \h04, \h05, \h06, \h07, \h40, \h50, \h60, \h70,
                   \h80, \h01, \h99}

\* a value inside and a value outside the table, for each position
ErrBytePair(pos) ==
  CASE pos = 1 -> {\h07, \h99}
    [] pos = 2 -> {\h40, \h99}
    [] pos = 3 -> {\h80, \h99}
    [] pos = 4 -> {\h12, \h99}
    [] pos = 5 -> {\h80, \h99}

\* the data buffers of the sampled error frames: every combination of the
\* pairs, and every swept value at one position with table values elsewhere
ErrBuffers ==
  {[i \in 1..8 |-> IF i <= 5 THEN b[i] ELSE Fill(i)] :
     b \in {c \in [1..5 -> {\h07, \h40, \h80, \h12, \h99}] :
              \A i \in 1..5 : c[i] \in ErrBytePair(i)}}
    \cup UNION {{[i \in 1..8 |-> IF i = pos THEN v
                                 ELSE IF i = 1 THEN \h07
                                 ELSE IF i = 2 THEN \h40
                                 ELSE IF i = 3 THEN \h80
                                 ELSE IF i = 4 THEN \h12
                                 ELSE IF i = 5 THEN \h80
                                 ELSE Fill(i)] : v \in ErrByteSweep(pos)} :
                   pos \in 1..5}

ErrPayloads == {SubSeq(b, 1, n) : b \in ErrBuffers, n \in 0..8}

\* node ids of a command (u8)
NodeIds == {\h00, \h01, \h7f, \h80, \hff}

Commands ==
  {SendPDO(id, pdo, data, size) :
     id \in NodeIds, pdo \in PDOs, data \in Buffers, size \in 0..MaxPayloadLen}
    \cup {SendNMT(id, command) : id \in NodeIds, command \in NMTCommands}
    \cup {SendSDO(id) : id \in NodeIds}

\* -------------------------------------------------------- state machine
\* the calls that produce a frame, with their arguments
Inputs ==
  {[op |-> "new", id |-> id, data |-> data, rtr |-> rtr, err |-> err] :
     id \in IdSamples, data \in Payloads, rtr \in BOOLEAN, err \in BOOLEAN}
    \cup {[op |-> "serialize", command |-> command] : command \in Commands}
    \cup {[op |-> "read", raw |-> raw, data |-> data] :
            raw \in WireIds, data \in FramePayloads}
    \cup {[op |-> "new", id |-> code, data |-> data, rtr |-> FALSE,
           err |-> TRUE] : code \in ErrorCodes, data \in ErrPayloads}

VARIABLES
  input,      \* the call that produces the frame: its name and arguments
  frame,      \* the frame held: Ok(frame), Err(FrameError), Panic or None
  msg,        \* CANOpenNodeMessage::try_from of the frame held, or None
  decoded,    \* CANError::from_frame of the frame held, or None
  \* BCMSocket::send_periodically
  bcm_call,     \* the arguments of the call: microseconds and frame
  bcm_message,  \* the BCMMessageHeader handed to libc::write, or None
  write_result, \* what libc::write returned, or None
  bcm_ret,      \* what send_periodically returned, or None
  \* CANOpenSocket::new
  open_call,    \* the arguments of the call: variant and sync_period
  open_trace,   \* the calls made so far, in order, each with its outcome
  open_ret,     \* what CANOpenSocket::new returned, or None
  \* async_can::CANSocket shared by the tasks
  task_pc,      \* per task: "idle", "waiting" (suspended in readable() or
                \* writable()), "ready" (holds the guard) or "done"
  task_op,      \* per task: the operation under way and its argument
  task_io,      \* per task: what the non-blocking call returned, or None
  task_ret,     \* per task: what read or write returned, or None
  attempts,     \* per task: non-blocking calls made by this operation
  calls,        \* per task: operations started so far
  rx,           \* frames queued in the socket, oldest first
  tx,           \* frames in the socket's send buffer
  ready_r,      \* the read readiness cached by AsyncFd
  ready_w,      \* the write readiness cached by AsyncFd
  \* Bus Hub
  hub_pc,       \* "none", "open", "joining" (shutdown waits for the pump)
                \* or "closed" (physical channel released)
  stop,         \* the stop signal of the pump
  pump_pc,      \* the pump's phase: "read", "write", "idle" or "stopped"
  subscribers,  \* the live subscribers
  created,      \* every subscriber created so far
  inbox,        \* per subscriber: frames its Receiver has not yet taken
  delivered,    \* per subscriber: every frame republished to it, in order
  live_at,      \* per frame number: the subscribers live when the pump
                \* republished it, or None
  outbound,     \* the pump's outbound queue
  phys_out,     \* frames written to the physical channel, not yet seen back
  phys_in,      \* frames the physical channel has available for reading
  diag,         \* frames whose write failed, as reported to the diagnostics
  next_seq,     \* the number of the next frame sent
  produced,     \* every frame the pump has read from the physical channel,
                \* in the order the channel produced them
  sub_at,       \* per subscriber: how many frames had been produced when
                \* it subscribed
  \* CANSocket of lib.rs
  sock_call,    \* the call under way and its arguments
  sock_pc,      \* "idle", "failed" (open_if returned an error), "opened",
                \* "loop" (inside write_frame_insist) or "dropped"
  fds,          \* the descriptors fd and bcm_fd: "none", "open" or "closed"
  sock_ret,     \* what the call returned, or None
  sock_log,     \* what each write_frame of the call returned, in order
  errno,        \* the thread's errno
  retryable     \* how many more retryable failures the writes will report

codecVars == <<input, frame, msg, decoded>>

bcmVars == <<bcm_call, bcm_message, write_result, bcm_ret>>

openVars == <<open_call, open_trace, open_ret>>

asyncVars ==
  <<task_pc, task_op, task_io, task_ret, attempts, calls, rx, tx, ready_r,
    ready_w>>

hubVars ==
  <<hub_pc, stop, pump_pc, subscribers, created, inbox, delivered, live_at,
    outbound, phys_out, phys_in, diag, next_seq, produced, sub_at>>

sockVars ==
  <<sock_call, sock_pc, fds, sock_ret, sock_log, errno, retryable>>

vars == <<codecVars, bcmVars, openVars, asyncVars, hubVars, sockVars>>

\* no frame is being produced or decoded
CodecIdle ==
  /\ input = [op |-> "none"]
  /\ frame = None
  /\ msg = None
  /\ decoded = None

\* no send_periodically call is under way
BcmIdle ==
  /\ bcm_call = [op |-> "none"]
  /\ bcm_message = None
  /\ write_result = None
  /\ bcm_ret = None

\* no CANOpenSocket::new call is under way
OpenIdle ==
  /\ open_call = [op |-> "none"]
  /\ open_trace = <<>>
  /\ open_ret = None

\* cooperative tasks that share one adapter
Tasks == {"t1", "t2"}

\* no task uses the adapter
AsyncIdle ==
  /\ task_pc = [t \in Tasks |-> "idle"]
  /\ task_op = [t \in Tasks |-> [op |-> "none"]]
  /\ task_io = [t \in Tasks |-> None]
  /\ task_ret = [t \in Tasks |-> None]
  /\ attempts = [t \in Tasks |-> 0]
  /\ calls = [t \in Tasks |-> 0]
  /\ rx = <<>>
  /\ tx = <<>>
  /\ ready_r = FALSE
  /\ ready_w = FALSE

\* frames sent through the hub
MaxFrames == 2

\* subscribers of the hub, numbered in the order of their creation: enough
\* for a sender, another live subscriber and one created later
Subs == 1..3

\* no hub is open
HubIdle ==
  /\ hub_pc = "none"
  /\ stop = FALSE
  /\ pump_pc = "stopped"
  /\ subscribers = {}
  /\ created = {}
  /\ inbox = [s \in Subs |-> <<>>]
  /\ delivered = [s \in Subs |-> <<>>]
  /\ live_at = [k \in 1..MaxFrames |-> None]
  /\ outbound = <<>>
  /\ phys_out = <<>>
  /\ phys_in = <<>>
  /\ diag = <<>>
  /\ next_seq = 1
  /\ produced = <<>>
  /\ sub_at = [s \in Subs |-> 0]

\* no call on a CANSocket of lib.rs is under way
SockIdle ==
  /\ sock_call = [op |-> "none"]
  /\ sock_pc = "idle"
  /\ fds = [d \in {"fd", "bcm_fd"} |-> "none"]
  /\ sock_ret = None
  /\ sock_log = <<>>
  /\ errno = "0"
  /\ retryable = 0

Init ==
  /\ input \in Inputs
  /\ frame = None
  /\ msg = None
  /\ decoded = None
  /\ BcmIdle
  /\ OpenIdle
  /\ AsyncIdle
  /\ HubIdle
  /\ SockIdle

\* CANFrame::new(id, data, rtr, err)
New ==
  /\ input.op = "new"
  /\ frame = None
  /\ frame' = CANFrame_new(input.id, input.data, input.rtr, input.err)
  /\ UNCHANGED <<input, msg, decoded>>
  /\ UNCHANGED <<bcmVars, openVars, asyncVars, hubVars,
                 sockVars>>

\* CANFrame::from(command), as in CANOpenSocket::write
Serialize ==
  /\ input.op = "serialize"
  /\ frame = None
  /\ frame' = CANFrame_from(input.command)
  /\ UNCHANGED <<input, msg, decoded>>
  /\ UNCHANGED <<bcmVars, openVars, asyncVars, hubVars,
                 sockVars>>

\* a frame arrives from the bus (CANSocket::read_frame)
ReadFrame ==
  /\ input.op = "read"
  /\ frame = None
  /\ frame' = Ok([id |-> input.raw, data_len |-> Len(input.data), pad |-> 0,
                  res0 |-> 0, res1 |-> 0, data |-> full_data(input.data)])
  /\ UNCHANGED <<input, msg, decoded>>
  /\ UNCHANGED <<bcmVars, openVars, asyncVars, hubVars,
                 sockVars>>

\* CANOpenNodeMessage::try_from(frame), as in CANOpenSocket::read
Classify ==
  /\ frame.tag = "Ok"
  /\ msg = None
  /\ msg' = try_from(frame.val)
  /\ UNCHANGED <<input, frame, decoded>>
  /\ UNCHANGED <<bcmVars, openVars, asyncVars, hubVars,
                 sockVars>>

\* CANError::from_frame(&frame)
Decode ==
  /\ frame.tag = "Ok"
  /\ decoded = None
  /\ decoded' = from_frame(frame.val)
  /\ UNCHANGED <<input, frame, msg>>
  /\ UNCHANGED <<bcmVars, openVars, asyncVars, hubVars,
                 sockVars>>

Next ==
  \/ New
  \/ Serialize
  \/ ReadFrame
  \/ Classify
  \/ Decode

Spec == Init /\ [][Next]_vars

\* ---------------------------------------------- periodic transmission
TX_SETUP == 1

BCM_SETTIMER == Bits(\h0001)

BCM_STARTTIMER == Bits(\h0002)

\* size_of::<BCMMessageHeader>(): three u32, four bytes of padding, two
\* BCMInterval of 16 bytes, two u32 and a CANFrame of 16 bytes
BCMMessageHeaderSize == 72

\* `microseconds as libc::c_long`: a u64 and a c_long are both written as
\* the set of their set bit positions (0..63); the cast keeps the 64 bits
as_c_long(microseconds) == microseconds

BCMMessageHeader_of_SetTimerOnly(microseconds, template) ==
  [opcode |-> TX_SETUP,
   flags |-> BCM_SETTIMER,
   count |-> 0,
   ival1 |-> [tv_sec |-> Bits(0), tv_usec |-> Bits(0)],
   ival2 |-> [tv_sec |-> Bits(0), tv_usec |-> as_c_long(microseconds)],
   can_id |-> CANFrame_id(template),
   nframes |-> 1,
   frames |-> template]

\* the bcm_message built by BCMSocket::send_periodically
BCMMessageHeader_of(microseconds, template) ==
  [opcode |-> TX_SETUP,
   flags |-> Or(BCM_SETTIMER, BCM_STARTTIMER),
   count |-> 0,
   ival1 |-> [tv_sec |-> Bits(0), tv_usec |-> Bits(0)],
   ival2 |-> [tv_sec |-> Bits(0), tv_usec |-> as_c_long(microseconds)],
   can_id |-> CANFrame_id(template),
   nframes |-> 1,
   frames |-> template]

\* what send_periodically returns for the value libc::write returned
send_periodically_result(rv) ==
  IF rv = -1 THEN Err("io::Error") ELSE Ok("unit")

\* values libc::write can return for a block of BCMMessageHeaderSize bytes:
\* -1, a short count, or the whole size
WriteResults ==
  {-1, 0, BCMMessageHeaderSize - 16, BCMMessageHeaderSize - 1,
   BCMMessageHeaderSize}

\* requested intervals (u64): 0, 1, 50 ms, just below and at one second,
\* 2.5 s, 2^63 and u64::MAX
IntervalSamples ==
  {Bits(0), Bits(1), Bits(50000), Bits(999999), Bits(1000000),
   Bits(2500000), {63}, 0..63}

\* template frames: frames built by CANFrame::new
TemplateFrames ==
  {CANFrame_new(id, data, rtr, err).val :
     id \in {Bits(\h80), Bits(\h7ff), Bits(\h12345700)},
     data \in {<<>>, <<\h01, \h02, \h03>>,
               <<\h11, \h22, \h33, \h44, \h55, \h66, \h77, \h88>>},
     rtr \in BOOLEAN, err \in BOOLEAN}

InitBcm ==
  /\ CodecIdle
  /\ OpenIdle
  /\ AsyncIdle
  /\ HubIdle
  /\ SockIdle
  /\ bcm_call \in {[op |-> "send_periodically", microseconds |-> us,
                     frame |-> f] : us \in IntervalSamples,
                                    f \in TemplateFrames}
  /\ bcm_message = None
  /\ write_result = None
  /\ bcm_ret = None

\* BCMSocket::send_periodically(microseconds, frame): builds the message,
\* writes it once and maps the value libc::write returned
SendPeriodically ==
  /\ bcm_call.op = "send_periodically"
  /\ bcm_ret = None
  /\ \E rv \in WriteResults :
       /\ bcm_message' = Ok(BCMMessageHeader_of(bcm_call.microseconds,
                                                bcm_call.frame))
       /\ write_result' = Ok(rv)
       /\ bcm_ret' = send_periodically_result(rv)
  /\ UNCHANGED bcm_call
  /\ UNCHANGED <<codecVars, openVars, asyncVars, hubVars,
                 sockVars>>

NextBcm == SendPeriodically

SpecBcm == InitBcm /\ [][NextBcm]_vars

\* ------------------------------------------------- CANOpenSocket::new
\* one call made by CANOpenSocket::new and how it went; written is the
\* message handed to libc::write, if the call wrote one
Step(call, ok, written) == [call |-> call, ok |-> ok, written |-> written]

\* outcomes of the crate-root CANSocket::new(interface_name): a socket, or
\* an OpenError of one of the two kinds
CANSocket_new(outcome) ==
  IF outcome = "Ok" THEN Ok("CANSocket") ELSE Err(outcome)

\* async_can::CANSocket::new for the outcomes of its three calls: the `?`
\* after CANSocket::new, set_nonblocking mapped to IOError, and the unwrap
\* of AsyncFd::new
async_CANSocket_new(o) ==
  LET socket == CANSocket_new(o.socket)
  IN  IF socket.tag # "Ok" THEN socket
      ELSE IF o.set_nonblocking # "Ok" THEN Err("IOError")
      ELSE IF o.register # "Ok" THEN Panic("unwrap on Err")
      ELSE Ok("async CANSocket")

\* BCMSocket::new for the outcomes of if_nametoindex, socket and connect
BCMSocket_new(o) ==
  IF o = "if_nametoindex" THEN Err("LookupError")
  ELSE IF o = "socket" THEN Err("IOError")
  ELSE IF o = "connect" THEN Err("IOError")
  ELSE Ok("BCMSocket")

\* the sync frame built by CANOpenSocket::new
SyncFrame == unwrap(CANFrame_new(Bits(\h80), <<>>, FALSE, FALSE))

\* CANOpenSocket::new (both variants have the same body; they differ in
\* the CANSocket type): the value returned and the calls made, for the
\* outcomes o of the calls
CANOpenSocket_new(call, o) ==
  LET socket == IF call.variant = "async" THEN async_CANSocket_new(o.raw)
                ELSE CANSocket_new(o.raw.socket)
      s1 == <<Step("CANSocket::new", socket.tag = "Ok", None)>>
      bcm == BCMSocket_new(o.bcm)
      s2 == Append(s1, Step("BCMSocket::new", bcm.tag = "Ok", None))
      bcm_msg == BCMMessageHeader_of(call.sync_period.val, SyncFrame.val)
      sent == send_periodically_result(o.write)
      s3 == Append(s2, Step("send_periodically",
                            o.write = BCMMessageHeaderSize, Ok(bcm_msg)))
  IN  IF socket.tag # "Ok" THEN [ret |-> socket, trace |-> s1]
      ELSE IF bcm.tag # "Ok" THEN [ret |-> bcm, trace |-> s2]
      ELSE IF call.sync_period = None
        THEN [ret |-> Ok("CANOpenSocket"), trace |-> s2]
      ELSE IF SyncFrame.tag # "Ok" THEN [ret |-> SyncFrame, trace |-> s2]
      ELSE IF sent.tag # "Ok" THEN [ret |-> Err("IOError"), trace |-> s3]
      ELSE [ret |-> Ok("CANOpenSocket"), trace |-> s3]

\* outcomes of the calls behind CANSocket::new: the blocking variant only
\* opens the socket
RawOutcomes(variant) ==
  {[socket |-> a, set_nonblocking |-> b, register |-> c] :
     a \in {"Ok", "LookupError", "IOError"},
     b \in IF variant = "async" THEN {"Ok", "Err"} ELSE {"Ok"},
     c \in IF variant = "async" THEN {"Ok", "Err"} ELSE {"Ok"}}

BcmOutcomes == {"Ok", "if_nametoindex", "socket", "connect"}

\* the calls async_can::CANSocket::new makes for the outcomes o, in order,
\* up to the first that fails
async_CANSocket_new_trace(o) ==
  LET s1 == <<Step("CANSocket::new", o.socket = "Ok", None)>>
      s2 == Append(s1, Step("set_nonblocking", o.set_nonblocking = "Ok",
                            None))
      s3 == Append(s2, Step("AsyncFd::new", o.register = "Ok", None))
  IN  IF o.socket # "Ok" THEN s1
      ELSE IF o.set_nonblocking # "Ok" THEN s2
      ELSE s3

InitOpen ==
  /\ CodecIdle
  /\ BcmIdle
  /\ AsyncIdle
  /\ HubIdle
  /\ SockIdle
  /\ open_call \in {[op |-> "new", variant |-> v, sync_period |-> p] :
                      v \in {"blocking", "async"},
                      p \in {None} \cup {Ok(us) : us \in IntervalSamples}}
                    \cup {[op |-> "adapter", variant |-> "async",
                           sync_period |-> None]}
  /\ open_trace = <<>>
  /\ open_ret = None

\* CANOpenSocket::new(bus_name, sync_period), either variant
OpenSocket ==
  /\ open_call.op = "new"
  /\ open_ret = None
  /\ \E raw \in RawOutcomes(open_call.variant), bcm \in BcmOutcomes,
        write \in WriteResults :
       LET r == CANOpenSocket_new(open_call,
                                  [raw |-> raw, bcm |-> bcm, write |-> write])
       IN  /\ open_ret' = r.ret
           /\ open_trace' = r.trace
  /\ UNCHANGED open_call
  /\ UNCHANGED <<codecVars, bcmVars, asyncVars, hubVars,
                 sockVars>>

\* async_can::CANSocket::new(interface_name), called on its own
NewAdapter ==
  /\ open_call.op = "adapter"
  /\ open_ret = None
  /\ \E raw \in RawOutcomes("async") :
       /\ open_ret' = async_CANSocket_new(raw)
       /\ open_trace' = async_CANSocket_new_trace(raw)
  /\ UNCHANGED open_call
  /\ UNCHANGED <<codecVars, bcmVars, asyncVars, hubVars,
                 sockVars>>

NextOpen ==
  \/ OpenSocket
  \/ NewAdapter

SpecOpen == InitOpen /\ [][NextOpen]_vars

\* ------------------------------------------------ async_can::CANSocket
\* frames the socket buffers hold
MaxRx == 1

MaxTx == 1

\* operations one task starts
MaxCalls == 2

AsyncFrames ==
  {SyncFrame.val,
   CANFrame_new(Bits(\h185), <<\h01, \h02>>, FALSE, FALSE).val}

\* the non-blocking read of the socket: the oldest queued frame, would-block
\* when nothing is queued, or another I/O error
socket_read(queue) ==
  (IF queue = <<>> THEN {Err("WouldBlock")} ELSE {Ok(Head(queue))})
    \cup {Err("IOError")}

\* the non-blocking write of the socket: accepted, would-block when the send
\* buffer is full, or another I/O error
socket_write(buffer) ==
  (IF Len(buffer) >= MaxTx THEN {Err("WouldBlock")} ELSE {Ok("unit")})
    \cup {Err("IOError")}

\* AsyncFdReadyGuard::try_io: runs the closure once; a would-block result
\* becomes Err(TryIoError), any other result is passed on
try_io(io) == IF io = Err("WouldBlock") THEN Err("TryIoError") ELSE Ok(io)

io_result_AsIOError(guarded) ==
  IF guarded.tag = "Ok" THEN guarded.val ELSE Err("IOError")

\* the match of read and of write on what try_io returned
io_result(guarded) ==
  IF guarded.tag = "Ok" THEN guarded.val ELSE Err("WouldBlock")

InitAsync ==
  /\ CodecIdle
  /\ BcmIdle
  /\ OpenIdle
  /\ HubIdle
  /\ SockIdle
  /\ task_pc = [t \in Tasks |-> "idle"]
  /\ task_op = [t \in Tasks |-> [op |-> "none"]]
  /\ task_io = [t \in Tasks |-> None]
  /\ task_ret = [t \in Tasks |-> None]
  /\ attempts = [t \in Tasks |-> 0]
  /\ calls = [t \in Tasks |-> 0]
  /\ rx = <<>>
  /\ tx = <<>>
  /\ ready_r = FALSE
  /\ ready_w = TRUE

\* a task calls read() on the shared adapter (read takes &self) and is
\* suspended in readable()
StartRead ==
  \E t \in Tasks :
    /\ task_pc[t] \in {"idle", "done"}
    /\ calls[t] < MaxCalls
    /\ task_pc' = [task_pc EXCEPT ![t] = "waiting"]
    /\ task_op' = [task_op EXCEPT ![t] = [op |-> "read"]]
    /\ task_io' = [task_io EXCEPT ![t] = None]
    /\ task_ret' = [task_ret EXCEPT ![t] = None]
    /\ attempts' = [attempts EXCEPT ![t] = 0]
    /\ calls' = [calls EXCEPT ![t] = @ + 1]
    /\ UNCHANGED <<rx, tx, ready_r, ready_w>>
    /\ UNCHANGED <<codecVars, bcmVars, openVars, hubVars,
                 sockVars>>

\* a task calls write(frame) on the shared adapter (write takes &self) and
\* is suspended in writable()
StartWrite ==
  \E t \in Tasks, f \in AsyncFrames :
    /\ task_pc[t] \in {"idle", "done"}
    /\ calls[t] < MaxCalls
    /\ task_pc' = [task_pc EXCEPT ![t] = "waiting"]
    /\ task_op' = [task_op EXCEPT ![t] = [op |-> "write", frame |-> f]]
    /\ task_io' = [task_io EXCEPT ![t] = None]
    /\ task_ret' = [task_ret EXCEPT ![t] = None]
    /\ attempts' = [attempts EXCEPT ![t] = 0]
    /\ calls' = [calls EXCEPT ![t] = @ + 1]
    /\ UNCHANGED <<rx, tx, ready_r, ready_w>>
    /\ UNCHANGED <<codecVars, bcmVars, openVars, hubVars,
                 sockVars>>

\* readable().await or writable().await returns the guard once the cached
\* readiness of that direction is set
Readiness ==
  \E t \in Tasks :
    /\ task_pc[t] = "waiting"
    /\ IF task_op[t].op = "read" THEN ready_r ELSE ready_w
    /\ task_pc' = [task_pc EXCEPT ![t] = "ready"]
    /\ UNCHANGED <<task_op, task_io, task_ret, attempts, calls, rx, tx,
                   ready_r, ready_w>>
    /\ UNCHANGED <<codecVars, bcmVars, openVars, hubVars,
                 sockVars>>

\* readable().await or writable().await fails and `?` returns the error
ReadinessFails ==
  \E t \in Tasks :
    /\ task_pc[t] = "waiting"
    /\ task_pc' = [task_pc EXCEPT ![t] = "done"]
    /\ task_ret' = [task_ret EXCEPT ![t] = Err("IOError")]
    /\ UNCHANGED <<task_op, task_io, attempts, calls, rx, tx, ready_r,
                   ready_w>>
    /\ UNCHANGED <<codecVars, bcmVars, openVars, hubVars,
                 sockVars>>

\* the rest of read(): try_io runs the non-blocking read once, clears the
\* cached readiness on would-block, and the match gives the return value
TryRead ==
  \E t \in Tasks :
    /\ task_pc[t] = "ready"
    /\ task_op[t].op = "read"
    /\ \E io \in socket_read(rx) :
         /\ task_io' = [task_io EXCEPT ![t] = io]
         /\ task_ret' = [task_ret EXCEPT ![t] = io_result(try_io(io))]
         /\ rx' = IF io.tag = "Ok" THEN Tail(rx) ELSE rx
         /\ ready_r' = IF try_io(io).tag = "Err" THEN FALSE ELSE ready_r
    /\ attempts' = [attempts EXCEPT ![t] = @ + 1]
    /\ task_pc' = [task_pc EXCEPT ![t] = "done"]
    /\ UNCHANGED <<task_op, calls, tx, ready_w>>
    /\ UNCHANGED <<codecVars, bcmVars, openVars, hubVars,
                 sockVars>>

\* the rest of write(frame), likewise
TryWrite ==
  \E t \in Tasks :
    /\ task_pc[t] = "ready"
    /\ task_op[t].op = "write"
    /\ \E io \in socket_write(tx) :
         /\ task_io' = [task_io EXCEPT ![t] = io]
         /\ task_ret' = [task_ret EXCEPT ![t] = io_result(try_io(io))]
         /\ tx' = IF io.tag = "Ok" THEN Append(tx, task_op[t].frame) ELSE tx
         /\ ready_w' = IF try_io(io).tag = "Err" THEN FALSE ELSE ready_w
    /\ attempts' = [attempts EXCEPT ![t] = @ + 1]
    /\ task_pc' = [task_pc EXCEPT ![t] = "done"]
    /\ UNCHANGED <<task_op, calls, rx, ready_r>>
    /\ UNCHANGED <<codecVars, bcmVars, openVars, hubVars,
                 sockVars>>

\* the bus delivers a frame to the socket; the reactor sets read readiness
FrameArrives ==
  /\ Len(rx) < MaxRx
  /\ \E f \in AsyncFrames : rx' = Append(rx, f)
  /\ ready_r' = TRUE
  /\ UNCHANGED <<task_pc, task_op, task_io, task_ret, attempts, calls, tx,
                 ready_w>>
  /\ UNCHANGED <<codecVars, bcmVars, openVars, hubVars,
                 sockVars>>

\* the bus takes a frame of the send buffer; the reactor sets write
\* readiness
FrameSent ==
  /\ tx # <<>>
  /\ tx' = Tail(tx)
  /\ ready_w' = TRUE
  /\ UNCHANGED <<task_pc, task_op, task_io, task_ret, attempts, calls, rx,
                 ready_r>>
  /\ UNCHANGED <<codecVars, bcmVars, openVars, hubVars,
                 sockVars>>

NextAsync ==
  \/ StartRead
  \/ StartWrite
  \/ Readiness
  \/ ReadinessFails
  \/ TryRead
  \/ TryWrite
  \/ FrameArrives
  \/ FrameSent

SpecAsync == InitAsync /\ [][NextAsync]_vars

\* ------------------------------------------------------------- Bus Hub
broadcast_OneReceiver(boxes, live, f) ==
  [s \in Subs |-> IF live # {} /\ s = CHOOSE m \in live : \A n \in live : m <= n
                  THEN Append(boxes[s], f) ELSE boxes[s]]

broadcast_Prepend(boxes, live, f) ==
  [s \in Subs |-> IF s \in live THEN <<f>> \o boxes[s] ELSE boxes[s]]

\* the broadcast channel: one republished frame is appended to the view of
\* every current subscriber
broadcast(boxes, live, f) ==
  [s \in Subs |-> IF s \in live THEN Append(boxes[s], f) ELSE boxes[s]]

after_write_AbortOnFailure(ok) == IF ok THEN "write" ELSE "stopped"

\* the pump's phase after one write of phase 2: it goes on with the queue
\* whether the write succeeded or failed
after_write(ok) == "write"

may_release_NoJoin(pc) == TRUE

\* shutdown blocks until the pump thread has exited
may_release(pc) == pc = "stopped"

\* the hub after open(interface): the pump runs, nobody has subscribed
InitHub ==
  /\ CodecIdle
  /\ BcmIdle
  /\ OpenIdle
  /\ AsyncIdle
  /\ SockIdle
  /\ hub_pc = "open"
  /\ stop = FALSE
  /\ pump_pc = "read"
  /\ subscribers = {}
  /\ created = {}
  /\ inbox = [s \in Subs |-> <<>>]
  /\ delivered = [s \in Subs |-> <<>>]
  /\ live_at = [k \in 1..MaxFrames |-> None]
  /\ outbound = <<>>
  /\ phys_out = <<>>
  /\ phys_in = <<>>
  /\ diag = <<>>
  /\ next_seq = 1
  /\ produced = <<>>
  /\ sub_at = [s \in Subs |-> 0]

\* subscribe() -> (Sender, Receiver): a new subscriber whose view starts
\* empty; subscribers are numbered in the order of their creation
Subscribe ==
  /\ hub_pc = "open"
  /\ \E s \in Subs \ created :
       /\ \A n \in Subs \ created : s <= n
       /\ subscribers' = subscribers \cup {s}
       /\ created' = created \cup {s}
       /\ sub_at' = [sub_at EXCEPT ![s] = Len(produced)]
  /\ UNCHANGED <<hub_pc, stop, pump_pc, inbox, delivered, live_at, outbound,
                 phys_out, phys_in, diag, next_seq, produced>>
  /\ UNCHANGED <<codecVars, bcmVars, openVars, asyncVars,
                 sockVars>>

\* a subscriber drops its handle pair, and with the Receiver its view
Unsubscribe ==
  /\ \E s \in subscribers :
       /\ subscribers' = subscribers \ {s}
       /\ inbox' = [inbox EXCEPT ![s] = <<>>]
  /\ UNCHANGED <<hub_pc, stop, pump_pc, created, delivered, live_at,
                 outbound, phys_out, phys_in, diag, next_seq>>
  /\ UNCHANGED <<produced, sub_at>>
  /\ UNCHANGED <<codecVars, bcmVars, openVars, asyncVars,
                 sockVars>>

\* Sender: the frame is handed to the pump's outbound queue; the caller is
\* not blocked
Send ==
  /\ next_seq <= MaxFrames
  /\ \E s \in subscribers :
       outbound' = Append(outbound, [seq |-> next_seq, from |-> s])
  /\ next_seq' = next_seq + 1
  /\ UNCHANGED <<hub_pc, stop, pump_pc, subscribers, created, inbox,
                 delivered, live_at, phys_out, phys_in, diag>>
  /\ UNCHANGED <<produced, sub_at>>
  /\ UNCHANGED <<codecVars, bcmVars, openVars, asyncVars,
                 sockVars>>

\* Receiver: a subscriber takes the oldest frame of its own view
Receive ==
  /\ \E s \in subscribers :
       /\ inbox[s] # <<>>
       /\ inbox' = [inbox EXCEPT ![s] = Tail(@)]
  /\ UNCHANGED <<hub_pc, stop, pump_pc, subscribers, created, delivered,
                 live_at, outbound, phys_out, phys_in, diag, next_seq>>
  /\ UNCHANGED <<produced, sub_at>>
  /\ UNCHANGED <<codecVars, bcmVars, openVars, asyncVars,
                 sockVars>>

\* pump, phase 1: one available inbound frame is read and republished to
\* the broadcast channel
PumpRead ==
  /\ pump_pc = "read"
  /\ phys_in # <<>>
  /\ inbox' = broadcast(inbox, subscribers, Head(phys_in))
  /\ delivered' = broadcast(delivered, subscribers, Head(phys_in))
  /\ live_at' = [live_at EXCEPT ![Head(phys_in).seq] = Ok(subscribers)]
  /\ phys_in' = Tail(phys_in)
  /\ produced' = Append(produced, Head(phys_in))
  /\ UNCHANGED <<hub_pc, stop, pump_pc, subscribers, created, outbound,
                 phys_out, diag, next_seq, sub_at>>
  /\ UNCHANGED <<codecVars, bcmVars, openVars, asyncVars,
                 sockVars>>

\* pump, end of phase 1: the channel reports no data available
PumpReadDone ==
  /\ pump_pc = "read"
  /\ phys_in = <<>>
  /\ pump_pc' = "write"
  /\ UNCHANGED <<hub_pc, stop, subscribers, created, inbox, delivered,
                 live_at, outbound, phys_out, phys_in, diag, next_seq>>
  /\ UNCHANGED <<produced, sub_at>>
  /\ UNCHANGED <<codecVars, bcmVars, openVars, asyncVars,
                 sockVars>>

\* pump, phase 2: one queued outbound frame is written to the physical
\* channel; a failed write is reported and the pump goes on
PumpWrite ==
  /\ pump_pc = "write"
  /\ outbound # <<>>
  /\ outbound' = Tail(outbound)
  /\ \E ok \in BOOLEAN :
       /\ IF ok THEN /\ phys_out' = Append(phys_out, Head(outbound))
                     /\ diag' = diag
                ELSE /\ diag' = Append(diag, Head(outbound))
                     /\ phys_out' = phys_out
       /\ pump_pc' = after_write(ok)
  /\ UNCHANGED <<hub_pc, stop, subscribers, created, inbox,
                 delivered, live_at, phys_in, next_seq>>
  /\ UNCHANGED <<produced, sub_at>>
  /\ UNCHANGED <<codecVars, bcmVars, openVars, asyncVars,
                 sockVars>>

\* pump, end of phase 2: the outbound queue is empty
PumpWriteDone ==
  /\ pump_pc = "write"
  /\ outbound = <<>>
  /\ pump_pc' = "idle"
  /\ UNCHANGED <<hub_pc, stop, subscribers, created, inbox, delivered,
                 live_at, outbound, phys_out, phys_in, diag, next_seq>>
  /\ UNCHANGED <<produced, sub_at>>
  /\ UNCHANGED <<codecVars, bcmVars, openVars, asyncVars,
                 sockVars>>

\* pump, phase 3: after the brief idle the loop repeats, or ends when the
\* stop signal is set
PumpIdle ==
  /\ pump_pc = "idle"
  /\ pump_pc' = IF stop THEN "stopped" ELSE "read"
  /\ UNCHANGED <<hub_pc, stop, subscribers, created, inbox, delivered,
                 live_at, outbound, phys_out, phys_in, diag, next_seq>>
  /\ UNCHANGED <<produced, sub_at>>
  /\ UNCHANGED <<codecVars, bcmVars, openVars, asyncVars,
                 sockVars>>

\* the physical channel injects a written frame: it becomes available for
\* reading
Inject ==
  /\ phys_out # <<>>
  /\ phys_in' = Append(phys_in, Head(phys_out))
  /\ phys_out' = Tail(phys_out)
  /\ UNCHANGED <<hub_pc, stop, pump_pc, subscribers, created, inbox,
                 delivered, live_at, outbound, diag, next_seq>>
  /\ UNCHANGED <<produced, sub_at>>
  /\ UNCHANGED <<codecVars, bcmVars, openVars, asyncVars,
                 sockVars>>

\* shutdown: the hub signals the pump to stop and waits for it
Shutdown ==
  /\ hub_pc = "open"
  /\ hub_pc' = "joining"
  /\ stop' = TRUE
  /\ UNCHANGED <<pump_pc, subscribers, created, inbox, delivered, live_at,
                 outbound, phys_out, phys_in, diag, next_seq>>
  /\ UNCHANGED <<produced, sub_at>>
  /\ UNCHANGED <<codecVars, bcmVars, openVars, asyncVars,
                 sockVars>>

\* shutdown, after the pump thread has exited: the physical channel is
\* released
Release ==
  /\ hub_pc = "joining"
  /\ may_release(pump_pc)
  /\ hub_pc' = "closed"
  /\ UNCHANGED <<stop, pump_pc, subscribers, created, inbox, delivered,
                 live_at, outbound, phys_out, phys_in, diag, next_seq>>
  /\ UNCHANGED <<produced, sub_at>>
  /\ UNCHANGED <<codecVars, bcmVars, openVars, asyncVars,
                 sockVars>>

NextHub ==
  \/ Subscribe
  \/ Unsubscribe
  \/ Send
  \/ Receive
  \/ PumpRead
  \/ PumpReadDone
  \/ PumpWrite
  \/ PumpWriteDone
  \/ PumpIdle
  \/ Inject
  \/ Shutdown
  \/ Release

SpecHub == InitHub /\ [][NextHub]_vars

\* ------------------------------------------------- CANSocket (lib.rs)
\* size_of::<CANFrame>(): u32, u8, three u8 of padding and [u8; 8]
CANFrameSize == 16

\* retryable failures the writes report before they stop
MaxRetries == 3

\* values libc::write can return for a frame: -1, a short count, or the
\* whole size
WriteFrameResults == {-1, 0, CANFrameSize - 1, CANFrameSize}

\* errno values a failed write can leave
WriteErrnos == {"EAGAIN", "EINPROGRESS", "EINTR", "ENOBUFS"}

\* the ErrorKind the standard library gives an OS error code: EAGAIN and
\* EWOULDBLOCK are WouldBlock, EINPROGRESS is among the codes left as Other
decode_error_kind(code) ==
  CASE code = "EAGAIN" -> "WouldBlock"
    [] code = "EINTR" -> "Interrupted"
    [] OTHER -> "Other"

\* io::Error::last_os_error() when errno holds code
last_os_error(code) ==
  [kind |-> decode_error_kind(code), raw_os_error |-> code]

should_retry_WouldBlockOnly(e) == e.kind = "WouldBlock"

\* impl ShouldRetry for Error
should_retry(e) ==
  CASE e.kind = "WouldBlock" -> TRUE
    [] e.kind = "Other" -> e.raw_os_error = "EINPROGRESS"
    [] OTHER -> FALSE

\* CANSocket::write_frame for the value rv that write returned, with errno
\* holding code afterwards
write_frame(rv, code) ==
  IF rv # CANFrameSize THEN Err(last_os_error(code)) ELSE Ok("unit")

\* retryable as the contract words it: WouldBlock, or OS error EINPROGRESS
Retryable(r) ==
  /\ r.tag = "Err"
  /\ r.val.kind = "WouldBlock" \/ r.val.raw_os_error = "EINPROGRESS"

\* CANSocket::open_if for the outcomes o of socket (raw), socket (bcm), bind
\* and connect: the value returned and the state of the two descriptors
open_if(o) ==
  LET sock_fd == IF o.raw THEN "open" ELSE "none"
      bcm_fd == IF o.bcm THEN "open" ELSE "none"
  IN  IF ~o.raw \/ ~o.bcm
        THEN [ret |-> Err("CANSocketOpenError"),
              fds |-> [fd |-> sock_fd, bcm_fd |-> bcm_fd]]
      ELSE IF ~o.bind
        THEN [ret |-> Err("CANSocketOpenError"),
              fds |-> [fd |-> "closed", bcm_fd |-> bcm_fd]]
      ELSE IF ~o.connect
        THEN [ret |-> Err("CANSocketOpenError"),
              fds |-> [fd |-> sock_fd, bcm_fd |-> "closed"]]
      ELSE [ret |-> Ok("CANSocket"),
            fds |-> [fd |-> sock_fd, bcm_fd |-> bcm_fd]]

\* what the four calls of open_if can do
OpenIfOutcomes ==
  [raw : BOOLEAN, bcm : BOOLEAN, bind : BOOLEAN, connect : BOOLEAN]

\* CANSocket::close for the values rv1 and rv2 the two libc::close calls
\* return: libc::close releases the descriptor whatever it returns; the
\* function returns early when rv != -1
close(rv1, rv2, code) ==
  IF rv1 # -1
    THEN [ret |-> Err(last_os_error(code)),
          fds |-> [fd |-> "closed", bcm_fd |-> "open"]]
  ELSE IF rv2 # -1
    THEN [ret |-> Err(last_os_error(code)),
          fds |-> [fd |-> "closed", bcm_fd |-> "closed"]]
  ELSE [ret |-> Ok("unit"), fds |-> [fd |-> "closed", bcm_fd |-> "closed"]]

InitSock ==
  /\ CodecIdle
  /\ BcmIdle
  /\ OpenIdle
  /\ AsyncIdle
  /\ HubIdle
  /\ sock_call = [op |-> "none"]
  /\ sock_pc = "idle"
  /\ fds = [d \in {"fd", "bcm_fd"} |-> "none"]
  /\ sock_ret = None
  /\ sock_log = <<>>
  /\ errno \in {"0", "EAGAIN", "EINPROGRESS", "EINTR"}
  /\ retryable \in 0..MaxRetries

\* CANSocket::open_if(if_index)
OpenIf ==
  /\ sock_pc = "idle"
  /\ \E o \in OpenIfOutcomes :
       /\ sock_ret' = open_if(o).ret
       /\ fds' = open_if(o).fds
       /\ sock_pc' = IF open_if(o).ret.tag = "Ok" THEN "opened" ELSE "failed"
  /\ sock_call' = [op |-> "open_if"]
  /\ UNCHANGED <<sock_log, errno, retryable>>
  /\ UNCHANGED <<codecVars, bcmVars, openVars, asyncVars, hubVars>>

\* write_frame_insist(frame) is called on the open socket
InsistStart ==
  /\ sock_pc = "opened"
  /\ sock_call.op = "open_if"
  /\ sock_call' = [op |-> "write_frame_insist"]
  /\ sock_pc' = "loop"
  /\ sock_ret' = None
  /\ sock_log' = <<>>
  /\ UNCHANGED <<fds, errno, retryable>>
  /\ UNCHANGED <<codecVars, bcmVars, openVars, asyncVars, hubVars>>

\* one turn of the loop of write_frame_insist: write_frame is called; Ok and
\* an error that should not be retried are returned, any other error loops.
\* A write that fails sets errno, any other leaves errno as it was.
InsistAttempt ==
  /\ sock_pc = "loop"
  /\ \E rv \in WriteFrameResults, code \in WriteErrnos :
       LET after == IF rv = -1 THEN code ELSE errno
           r == write_frame(rv, after)
           again == r.tag = "Err" /\ should_retry(r.val)
       IN  /\ Retryable(r) => retryable > 0
           /\ retryable' = IF Retryable(r) THEN retryable - 1 ELSE retryable
           /\ errno' = after
           /\ sock_log' = Append(sock_log, r)
           /\ sock_pc' = IF again THEN "loop" ELSE "opened"
           /\ sock_ret' = IF again THEN sock_ret ELSE r
  /\ UNCHANGED <<sock_call, fds>>
  /\ UNCHANGED <<codecVars, bcmVars, openVars, asyncVars, hubVars>>

\* impl Drop for CANSocket: close() is called and its result ignored
Drop ==
  /\ sock_pc = "opened"
  /\ \E rv1 \in {0, -1}, rv2 \in {0, -1} :
       /\ fds' = close(rv1, rv2, errno).fds
       /\ sock_log' = <<close(rv1, rv2, errno).ret>>
  /\ sock_call' = [op |-> "drop"]
  /\ sock_pc' = "dropped"
  /\ sock_ret' = Ok("unit")
  /\ UNCHANGED <<errno, retryable>>
  /\ UNCHANGED <<codecVars, bcmVars, openVars, asyncVars, hubVars>>

NextSock ==
  \/ OpenIf
  \/ InsistStart
  \/ InsistAttempt
  \/ Drop

\* the thread inside write_frame_insist keeps running its loop
SpecSock == InitSock /\ [][NextSock]_vars /\ WF_vars(InsistAttempt)

\* ------------------------------------------------------------- claims
\* C1: for every identifier in 0..0x1FFFFFFF, every payload of 0 to 8 bytes
\* and every rtr/err input, CANFrame::new succeeds and the frame's id() is
\* the identifier, data() is the payload, is_rtr() and is_error() are the
\* inputs.
C1_NewRoundTrip ==
  (/\ input.op = "new"
   /\ frame # None
   /\ ~Gt(input.id, EFF_MASK)
   /\ Len(input.data) <= 8)
    => /\ frame.tag = "Ok"
       /\ CANFrame_id(frame.val) = input.id
       /\ CANFrame_data(frame.val) = input.data
       /\ is_rtr(frame.val) = input.rtr
       /\ is_error(frame.val) = input.err

C1_Witness ==
  /\ input.op = "new"
  /\ input.id = Bits(\h12345700)
  /\ Len(input.data) = 8
  /\ input.rtr
  /\ input.err
  /\ frame.tag = "Ok"
  /\ CANFrame_id(frame.val) = Bits(\h12345700)

\* C2 as stated: classify is the exact inverse of serialize: classifying the
\* frame of SendPDO(node, channel, bytes, len), node in 0..0x7F, yields
\* PDOReceived on the same channel with bytes[..len] and len, and classifying
\* the frame of a SendNMT command recovers that command.
C2_ClassifyInvertsSerialize ==
  (/\ input.op = "serialize"
   /\ msg # None)
    => /\ (input.command.kind = "SendPDO" /\ input.command.id <= \h7f)
            => msg = Ok(PDOReceived(input.command.pdo,
                                    SubSeq(input.command.data, 1,
                                           input.command.size),
                                    input.command.size))
       /\ input.command.kind = "SendNMT"
            => msg = Ok([kind |-> "NetworkManagementCommand",
                         id |-> input.command.id,
                         command |-> input.command.command])

\* C2 amended: for node ids 0..0x7F, classifying the frame of a SendPDO
\* command fails with InvalidID carrying the channel's to-device base
\* (0x200, 0x300, 0x400, 0x500), and classifying the frame of a SendNMT
\* command yields NMTReceived(Initializing) for each of the five commands.
C2_ClassifyOfSerialized ==
  (/\ input.op = "serialize"
   /\ msg # None
   /\ input.command.id <= \h7f)
    => /\ input.command.kind = "SendPDO"
            => msg = Err(InvalidID(
                 CASE input.command.pdo = "PDO1" -> Bits(\h200)
                   [] input.command.pdo = "PDO2" -> Bits(\h300)
                   [] input.command.pdo = "PDO3" -> Bits(\h400)
                   [] input.command.pdo = "PDO4" -> Bits(\h500)))
       /\ input.command.kind = "SendNMT"
            => msg = Ok(NMTReceived("Initializing"))

C2_Witness ==
  /\ input.op = "serialize"
  /\ input.command.kind = "SendPDO"
  /\ input.command.id = \h7f
  /\ input.command.pdo = "PDO1"
  /\ input.command.size = 8
  /\ msg = Err(InvalidID(Bits(\h200)))

\* C3 as stated: classification is total: for every frame it returns a
\* message or the unrecognized-identifier error, and never aborts.
C3_ClassifyTotal ==
  msg # None
    => \/ msg.tag = "Ok"
       \/ msg.tag = "Err" /\ msg.val.kind = "InvalidID"

\* C4 as stated: classify switches on (identifier AND 0xF80): 0x080 yields
\* SyncReceived; 0x180..0x480 yield PDOReceived on channel 1..4 with the full
\* buffer and the length; 0x700 yields NMTReceived with the state decoded
\* from payload byte 0; every other value fails as unrecognized.
C4_ClassifySwitch ==
  msg # None
    => LET f == frame.val
           code == And(CANFrame_id(f), Bits(\hf80))
       IN  /\ code = Bits(\h080) => msg = Ok(SyncReceived)
           /\ code = Bits(\h180) => msg = Ok(PDOReceived("PDO1", f.data, f.data_len))
           /\ code = Bits(\h280) => msg = Ok(PDOReceived("PDO2", f.data, f.data_len))
           /\ code = Bits(\h380) => msg = Ok(PDOReceived("PDO3", f.data, f.data_len))
           /\ code = Bits(\h480) => msg = Ok(PDOReceived("PDO4", f.data, f.data_len))
           /\ code = Bits(\h700)
                => /\ msg.tag = "Ok"
                   /\ msg.val.kind = "NMTReceived"
                   /\ f.data_len > 0
                        => msg.val.state =
                             CASE f.data[1] = \h04 -> "Stopped"
                               [] f.data[1] = \h05 -> "Operational"
                               [] f.data[1] = \h7f -> "PreOperational"
                               [] OTHER -> "Initializing"
           /\ code \notin {Bits(\h080), Bits(\h180), Bits(\h280), Bits(\h380),
                           Bits(\h480), Bits(\h700)}
                => msg.tag = "Err" /\ msg.val.kind = "InvalidID"

\* C5: serialize yields, for SendPDO with length 0..8, identifier = to-device
\* base (0x200, 0x300, 0x400, 0x500) OR node and payload bytes[..length]; for
\* SendNMT identifier 0x700 OR node and the one command byte of the table;
\* for SendSDO identifier 0x580 OR node; rtr and error flags clear.
C5_SerializeMirror ==
  (/\ input.op = "serialize"
   /\ frame # None
   /\ input.command.kind = "SendPDO" => input.command.size <= 8)
    => LET c == input.command
       IN  /\ frame.tag = "Ok"
           /\ ~is_rtr(frame.val)
           /\ ~is_error(frame.val)
           /\ c.kind = "SendPDO"
                => /\ CANFrame_id(frame.val) =
                        Or(CASE c.pdo = "PDO1" -> Bits(\h200)
                             [] c.pdo = "PDO2" -> Bits(\h300)
                             [] c.pdo = "PDO3" -> Bits(\h400)
                             [] c.pdo = "PDO4" -> Bits(\h500), Bits(c.id))
                   /\ CANFrame_data(frame.val) = SubSeq(c.data, 1, c.size)
           /\ c.kind = "SendNMT"
                => /\ CANFrame_id(frame.val) = Or(Bits(\h700), Bits(c.id))
                   /\ CANFrame_data(frame.val) =
                        <<CASE c.command = "GoToOperational" -> \h01
                            [] c.command = "GoToStopped" -> \h02
                            [] c.command = "GoToPreOperational" -> \h80
                            [] c.command = "ResetNode" -> \h81
                            [] c.command = "ResetCommunication" -> \h82>>
           /\ c.kind = "SendSDO"
                => CANFrame_id(frame.val) = Or(Bits(\h580), Bits(c.id))

C5_Witness ==
  /\ input.op = "serialize"
  /\ input.command.kind = "SendNMT"
  /\ input.command.id = \hff
  /\ input.command.command = "ResetCommunication"
  /\ frame.tag = "Ok"
  /\ CANFrame_id(frame.val) = Bits(\h7ff)
  /\ CANFrame_data(frame.val) = <<\h82>>

\* C6: CANFrame::new with a payload of 9 bytes fails with TooMuchData for
\* every identifier (also one above 0x1FFFFFFF) and every flag input.
C6_NineBytesTooMuchData ==
  (/\ input.op = "new"
   /\ frame # None
   /\ Len(input.data) = 9)
    => frame = Err("TooMuchData")

C6_Witness ==
  /\ input.op = "new"
  /\ Len(input.data) = 9
  /\ input.id = 0..31
  /\ frame = Err("TooMuchData")

\* C7 as stated: CANFrame::new with an identifier greater than 0x1FFFFFFF
\* fails with IDTooLarge, for every payload and every flag input.
C7_LargeIdAlwaysIdTooLarge ==
  (/\ input.op = "new"
   /\ frame # None
   /\ Gt(input.id, EFF_MASK))
    => frame = Err("IDTooLarge")

\* C7 amended: CANFrame::new with an identifier greater than 0x1FFFFFFF and a
\* payload of at most 8 bytes fails with IDTooLarge, for every flag input.
C7_LargeIdIdTooLarge ==
  (/\ input.op = "new"
   /\ frame # None
   /\ Gt(input.id, EFF_MASK)
   /\ Len(input.data) <= 8)
    => frame = Err("IDTooLarge")

C7_Witness ==
  /\ input.op = "new"
  /\ input.id = {29}
  /\ Len(input.data) = 8
  /\ frame = Err("IDTooLarge")

\* C8: a frame produced by CANFrame::new has payload length <= 8 and
\* identifier <= 0x1FFFFFFF, its bit 0x80000000 is set exactly when the
\* identifier passed in exceeds 0x7FF, and the identifier is kept whole.
C8_FrameInvariant ==
  (/\ input.op = "new"
   /\ frame.tag = "Ok")
    => /\ frame.val.data_len <= 8
       /\ ~Gt(frame.val.id \ {29, 30, 31}, EFF_MASK)
       /\ (31 \in frame.val.id) <=> Gt(input.id, SFF_MASK)
       /\ frame.val.id \ {29, 30, 31} = input.id

C8_Witness ==
  /\ input.op = "new"
  /\ input.id = Bits(\h800)
  /\ frame.tag = "Ok"
  /\ 31 \in frame.val.id
  /\ CANFrame_id(frame.val) = Bits(\h800)

\* C9: classifying a frame with no recognized function code fails with the
\* error carrying (identifier AND 0xF80); for identifier 0x999 it carries
\* 0x999 AND 0xF80.
C9_InvalidIDCarriesMaskedId ==
  /\ msg.tag = "Err"
       => msg.val = InvalidID(And(CANFrame_id(frame.val), Bits(\hf80)))
  /\ (msg # None /\ input.op = "new" /\ input.id = Bits(\h999))
       => msg = Err(InvalidID(And(Bits(\h999), Bits(\hf80))))

C9_Witness ==
  /\ input.op = "new"
  /\ input.id = Bits(\h999)
  /\ msg.tag = "Err"
  /\ msg.val.id = Bits(\h980)

\* C10: decoding an error report from a frame whose error flag is unset
\* fails with NotAnError, whatever the identifier bits, the payload and its
\* length.
C10_NotAnError ==
  (/\ decoded # None
   /\ 29 \notin frame.val.id)
    => decoded = Err([kind |-> "NotAnError"])

C10_Witness ==
  /\ decoded = Err([kind |-> "NotAnError"])
  /\ CANFrame_err(frame.val) = Bits(\h4)
  /\ frame.val.data_len <= 1

\* C11: for an error frame, code 0x2 with payload byte 0 = n yields
\* LostArbitration(n); code 0x4 maps payload byte 1 through the
\* controller-problem table and fails with InvalidControllerProblem for a
\* byte outside {0x00,0x01,0x02,0x04,0x08,0x10,0x20,0x40}; code 0x8 maps
\* payload byte 2 through the violation-type table and payload byte 3
\* through the location table, failing with the invalid-violation-type or
\* invalid-location failure for a byte outside the respective table.
C11_SubStructure ==
  (/\ decoded # None
   /\ 29 \in frame.val.id)
    => LET f == frame.val
           code == f.id \ {29, 30, 31}
           d == SubSeq(f.data, 1, f.data_len)
       IN  /\ (code = Bits(\h2) /\ Len(d) >= 1)
                => decoded = Ok([kind |-> "LostArbitration", bit |-> d[1]])
           /\ (code = Bits(\h4) /\ Len(d) >= 2)
                => IF d[2] \in {\h00, \h01, \h02, \h04, \h08, \h10, \h20, \h40}
                   THEN decoded =
                          Ok([kind |-> "ControllerProblem",
                              problem |-> ControllerProblem_try_from(d[2]).val])
                   ELSE decoded = Err([kind |-> "InvalidControllerProblem"])
           /\ (code = Bits(\h8) /\ Len(d) >= 4)
                => IF ViolationType_try_from(d[3]).tag = "Err"
                   THEN decoded = Err([kind |-> "InvlaidViolationType"])
                   ELSE IF Location_try_from(d[4]).tag = "Err"
                   THEN decoded = Err([kind |-> "InvalidLocation"])
                   ELSE decoded =
                          Ok([kind |-> "ProtocolViolation",
                              vtype |-> ViolationType_try_from(d[3]).val,
                              location |-> Location_try_from(d[4]).val])

C11_Witness ==
  /\ frame.tag = "Ok"
  /\ 29 \in frame.val.id
  /\ CANFrame_err(frame.val) = Bits(\h4)
  /\ frame.val.data_len = 8
  /\ frame.val.data[1] = \h07
  /\ frame.val.data[2] = \h99
  /\ decoded = Err([kind |-> "InvalidControllerProblem"])

\* C12: decoding an error frame whose payload is too short for the byte its
\* class requires fails with NotEnoughData carrying the index: code 0x2 with
\* length 0 gives NotEnoughData(0), code 0x4 with length <= 1 gives
\* NotEnoughData(1), code 0x8 with length <= 2 gives NotEnoughData(2).
C12_NotEnoughData ==
  (/\ decoded # None
   /\ 29 \in frame.val.id)
    => LET f == frame.val
           code == f.id \ {29, 30, 31}
       IN  /\ (code = Bits(\h2) /\ f.data_len = 0)
                => decoded = Err([kind |-> "NotEnoughData", idx |-> 0])
           /\ (code = Bits(\h4) /\ f.data_len <= 1)
                => decoded = Err([kind |-> "NotEnoughData", idx |-> 1])
           /\ (code = Bits(\h8) /\ f.data_len <= 2)
                => decoded = Err([kind |-> "NotEnoughData", idx |-> 2])

C12_Witness ==
  /\ frame.tag = "Ok"
  /\ 29 \in frame.val.id
  /\ CANFrame_err(frame.val) = Bits(\h8)
  /\ frame.val.data_len = 2
  /\ decoded = Err([kind |-> "NotEnoughData", idx |-> 2])

\* C13 as stated: decoding an error frame of class 0x10 whose sub-code is
\* not a value of the transceiver-error table fails with
\* InvalidTransceiverError (checked on frames none of whose eight payload
\* bytes is a value of the table).
C13_InvalidTransceiverError ==
  (/\ decoded # None
   /\ 29 \in frame.val.id
   /\ frame.val.id \ {29, 30, 31} = Bits(\h10)
   /\ frame.val.data_len = 8
   /\ \A i \in 1..8 :
        frame.val.data[i] \notin {\h00, \h04, \h05, \h06, \h07, \h40, \h50,
                                  \h60, \h70, \h80})
    => decoded = Err([kind |-> "InvalidTransceiverError"])

\* C14: decoding an error frame whose error code is not one of 0x1, 0x2,
\* 0x4, 0x8, 0x10, 0x20, 0x40, 0x80, 0x100 fails with UnknownErrorType
\* carrying that code.
C14_UnknownErrorType ==
  (/\ decoded # None
   /\ 29 \in frame.val.id
   /\ frame.val.id \ {29, 30, 31}
        \notin {Bits(\h1), Bits(\h2), Bits(\h4), Bits(\h8), Bits(\h10),
                Bits(\h20), Bits(\h40), Bits(\h80), Bits(\h100)})
    => decoded = Err([kind |-> "UnknownErrorType",
                      code |-> frame.val.id \ {29, 30, 31}])

C14_Witness ==
  /\ frame.tag = "Ok"
  /\ 29 \in frame.val.id
  /\ frame.val.id \ {29, 30, 31} = Bits(\h3)
  /\ decoded = Err([kind |-> "UnknownErrorType", code |-> Bits(\h3)])

\* C15 as stated: a short write (fewer bytes accepted than the size of the
\* envelope) is reported as an I/O failure; send_periodically returns
\* success only when the whole envelope was written.
C15_ShortWriteIsFailure ==
  bcm_ret # None
    => /\ (write_result.val >= 0 /\ write_result.val < BCMMessageHeaderSize)
            => bcm_ret.tag = "Err"
       /\ bcm_ret.tag = "Ok" => write_result.val = BCMMessageHeaderSize

\* C16: for every interval and template frame the envelope has operation
\* code 1, flags 0x0001 OR 0x0002 = 0x0003, count 0, first interval pair
\* (0, 0), second interval pair (0, requested interval), frame count 1 and
\* one embedded frame equal to the template field for field.
C16_Envelope ==
  bcm_message # None
    => LET m == bcm_message.val
       IN  /\ m.opcode = 1
           /\ m.flags = Bits(\h0003)
           /\ m.count = 0
           /\ m.ival1 = [tv_sec |-> Bits(0), tv_usec |-> Bits(0)]
           /\ m.ival2 = [tv_sec |-> Bits(0), tv_usec |-> bcm_call.microseconds]
           /\ m.nframes = 1
           /\ m.frames = bcm_call.frame

C16_Witness ==
  /\ bcm_message # None
  /\ bcm_call.microseconds = Bits(2500000)
  /\ is_extended(bcm_call.frame)
  /\ is_rtr(bcm_call.frame)
  /\ bcm_call.frame.data_len = 8
  /\ bcm_message.val.frames = bcm_call.frame
  /\ bcm_message.val.ival2.tv_usec = Bits(2500000)

\* C17 as stated: when CANOpenSocket::new has returned, (a) a socket came
\* back only if no call failed, and any failed call (opening the raw
\* socket, opening the periodic socket, a write that did not take the whole
\* envelope) makes the result an OpenError; (b) the envelope of the sync
\* frame (identifier 0x80, empty payload, no flags) at the configured
\* interval was handed to the kernel exactly when a sync period is
\* configured, and nothing was written when it is absent; (c) the raw
\* socket is opened first and the periodic socket second.
C17_OpenInstallsSync ==
  (open_call.op = "new" /\ open_ret # None)
    => LET failed == \E i \in 1..Len(open_trace) : ~open_trace[i].ok
           installs == {i \in 1..Len(open_trace) :
                          open_trace[i].written # None}
       IN  /\ failed => open_ret.tag = "Err"
           /\ open_ret.tag = "Ok" => ~failed
           /\ open_ret.tag = "Ok"
                => (installs # {} <=> open_call.sync_period # None)
           /\ open_call.sync_period = None => installs = {}
           /\ \A i \in installs :
                /\ open_trace[i].written.val.frames
                     = [id |-> Bits(\h80), data_len |-> 0, pad |-> 0,
                        res0 |-> 0, res1 |-> 0,
                        data |-> <<0, 0, 0, 0, 0, 0, 0, 0>>]
                /\ open_trace[i].written.val.ival2.tv_usec
                     = open_call.sync_period.val
           /\ open_trace[1].call = "CANSocket::new"
           /\ \A i \in 1..Len(open_trace) :
                open_trace[i].call = "BCMSocket::new" => i = 2

\* C18: a read or write of the async adapter makes at most one non-blocking
\* I/O call, and exactly one once readiness was reported; when that call
\* reports would-block the operation returns a WouldBlock failure (it is
\* done, not waiting again); any other outcome of the call (a frame,
\* success, another I/O error) is returned unchanged.
C18_OneAttempt ==
  \A t \in Tasks :
    /\ attempts[t] <= 1
    /\ task_io[t] # None
         => /\ task_pc[t] = "done"
            /\ attempts[t] = 1
            /\ task_io[t] = Err("WouldBlock")
                 => task_ret[t] = Err("WouldBlock")
            /\ task_io[t] # Err("WouldBlock") => task_ret[t] = task_io[t]

\* a task read the one queued frame and read again: the cached readiness
\* was still set, its one call reported would-block and read returned
\* WouldBlock
C18_Witness ==
  /\ task_pc["t2"] = "idle"
  /\ calls["t1"] = 2
  /\ task_op["t1"].op = "read"
  /\ task_pc["t1"] = "done"
  /\ task_io["t1"] = Err("WouldBlock")
  /\ task_ret["t1"] = Err("WouldBlock")
  /\ attempts["t1"] = 1
  /\ ~ready_r

\* C19 as stated: on one adapter at most one read and at most one write is
\* in flight (suspended in the readiness wait or making its attempt) at any
\* time.
C19_ExclusivePerDirection ==
  \A op \in {"read", "write"} :
    Cardinality({t \in Tasks : /\ task_op[t].op = op
                               /\ task_pc[t] \in {"waiting", "ready"}}) <= 1

\* the frames republished to subscriber s so far
DeliveredTo(s) == {delivered[s][i].seq : i \in 1..Len(delivered[s])}

\* C20: a frame sent through a subscriber's Sender and injected into the
\* physical channel is, once the pump has republished it, in the view of
\* exactly the subscribers that were live at that moment: of every other
\* live subscriber, and of no subscriber created afterwards; and what is
\* left in a subscriber's view is everything republished to it except
\* a prefix that only its own Receiver took, whatever the others received.
C20_Broadcast ==
  /\ \A k \in 1..MaxFrames :
       live_at[k] # None
         => \A s \in Subs : k \in DeliveredTo(s) <=> s \in live_at[k].val
  /\ \A k \in 1..MaxFrames, s \in Subs \ created :
       live_at[k] # None => k \notin DeliveredTo(s)
  /\ \A s \in Subs :
       \E n \in 0..Len(delivered[s]) :
         inbox[s] = SubSeq(delivered[s], n + 1, Len(delivered[s]))

\* frame 1, sent by subscriber 1, was republished while 1 and 2 were live;
\* subscriber 2 has received it, subscriber 1 still has it in its view, and
\* subscriber 3, created afterwards, does not see it
C20_Witness ==
  /\ live_at[1] = Ok({1, 2})
  /\ delivered[2] = <<[seq |-> 1, from |-> 1]>>
  /\ inbox[2] = <<>>
  /\ inbox[1] = <<[seq |-> 1, from |-> 1]>>
  /\ 3 \in subscribers
  /\ delivered[3] = <<>>

\* the frames produced since subscriber s subscribed
ProducedSince(s) == SubSeq(produced, sub_at[s] + 1, Len(produced))

\* C21: for every subscriber, the frames republished to it are the frames
\* the physical channel produced since its subscription, in the same order,
\* none twice and none left out (up to the moment it dropped its handles,
\* for one that did), and what its Receiver has not yet taken is the tail of
\* that sequence, so it receives them in that order.
C21_Ordering ==
  \A s \in Subs :
    /\ s \notin created => delivered[s] = <<>>
    /\ s \in subscribers => delivered[s] = ProducedSince(s)
    /\ s \in created \ subscribers
         => \E n \in 0..Len(ProducedSince(s)) :
              delivered[s] = SubSeq(ProducedSince(s), 1, n)
    /\ \E n \in 0..Len(delivered[s]) :
         inbox[s] = SubSeq(delivered[s], n + 1, Len(delivered[s]))

\* two frames were produced; subscriber 1, live from the start, has both in
\* order and has received the first; subscriber 2 subscribed after the first
\* frame and has only the second
C21_Witness ==
  /\ Len(produced) = 2
  /\ produced[1].seq = 1
  /\ delivered[1] = produced
  /\ inbox[1] = <<produced[2]>>
  /\ 2 \in subscribers
  /\ sub_at[2] = 1
  /\ delivered[2] = <<produced[2]>>

\* the places a sent frame can be
InOutbound(k) == \E i \in 1..Len(outbound) : outbound[i].seq = k

Reported(k) == \E i \in 1..Len(diag) : diag[i].seq = k

Written(k) ==
  \/ \E i \in 1..Len(phys_out) : phys_out[i].seq = k
  \/ \E i \in 1..Len(phys_in) : phys_in[i].seq = k
  \/ \E i \in 1..Len(produced) : produced[i].seq = k

\* C22: a failed write never ends the pump (it stops only on the stop
\* signal), every frame whose write failed is in the diagnostics, and every
\* other frame that was sent is still queued or was written: a failure
\* removes only the frame that failed.
C22_FailureIsolation ==
  /\ pump_pc = "stopped" => stop
  /\ \A k \in 1..(next_seq - 1) :
       /\ InOutbound(k) \/ Reported(k) \/ Written(k)
       /\ ~(InOutbound(k) /\ Reported(k))
       /\ ~(Reported(k) /\ Written(k))
       /\ ~(InOutbound(k) /\ Written(k))

\* the write of frame 1 failed and was reported; afterwards frame 2 was
\* written, came back from the channel and was republished to the live
\* subscribers
C22_Witness ==
  /\ Reported(1)
  /\ Len(produced) = 1
  /\ produced[1].seq = 2
  /\ live_at[2] = Ok({1, 2})
  /\ delivered[2] = produced
  /\ ~stop

\* C23: the physical channel is released only after the stop signal was
\* given and the pump thread has exited, and once it is released no frame
\* is read from it or written to it by the pump.
C23_Shutdown ==
  /\ [](hub_pc \in {"joining", "closed"} => stop)
  /\ [](hub_pc = "closed" => pump_pc = "stopped")
  /\ [][hub_pc = "closed"
          => /\ produced' = produced
             /\ diag' = diag
             /\ phys_in' = phys_in \/ phys_in' = Append(phys_in, Head(phys_out))
             /\ Len(outbound') >= Len(outbound)]_vars

\* the hub was shut down while a frame was still queued: the pump has
\* exited, the channel is released and the frame was left unwritten
C23_Witness ==
  /\ hub_pc = "closed"
  /\ pump_pc = "stopped"
  /\ stop
  /\ outbound # <<>>

\* C24: write_frame_insist returns what its last write_frame returned; every
\* earlier attempt failed with a retryable error (WouldBlock or OS error
\* EINPROGRESS); Ok is returned only after a write of the whole frame, an
\* error returned is never retryable; and the call returns once the writes
\* stop reporting retryable errors.
C24_Insist ==
  /\ [](sock_call.op = "write_frame_insist" /\ sock_pc # "loop"
          => /\ sock_log # <<>>
             /\ sock_ret = sock_log[Len(sock_log)]
             /\ ~Retryable(sock_ret)
             /\ \A i \in 1..(Len(sock_log) - 1) : Retryable(sock_log[i]))
  /\ [](sock_pc = "loop"
          => /\ sock_ret = None
             /\ \A i \in 1..Len(sock_log) : Retryable(sock_log[i]))
  /\ (sock_pc = "loop") ~> (sock_pc # "loop")

\* the first write reported would-block, the second EINPROGRESS, the third
\* took the frame and write_frame_insist returned Ok
C24_Witness ==
  /\ sock_call.op = "write_frame_insist"
  /\ sock_pc = "opened"
  /\ Len(sock_log) = 3
  /\ sock_log[1] = Err([kind |-> "WouldBlock", raw_os_error |-> "EAGAIN"])
  /\ sock_log[2] = Err([kind |-> "Other", raw_os_error |-> "EINPROGRESS"])
  /\ sock_ret = Ok("unit")

\* C25 as stated: after a CANSocket holding both descriptors is dropped,
\* neither descriptor remains open, whatever the two close calls returned.
C25_DropClosesBoth ==
  sock_pc = "dropped" => \A d \in {"fd", "bcm_fd"} : fds[d] # "open"

\* C26 as stated: when open_if returns an error, no descriptor it opened is
\* still open.
C26_OpenIfNoLeak ==
  sock_pc = "failed" => \A d \in {"fd", "bcm_fd"} : fds[d] # "open"

\* C27 as stated: in every envelope built by send_periodically the target
\* identifier equals the raw identifier-plus-flags field of the embedded
\* template frame.
C27_TargetIsRawId ==
  bcm_message # None
    => bcm_message.val.can_id = bcm_message.val.frames.id

\* the base identifier of a command
BaseId(c) ==
  CASE c.kind = "SendPDO" -> get_to_device_id(c.pdo)
    [] c.kind = "SendNMT" -> Bits(\h700)
    [] c.kind = "SendSDO" -> Bits(\h580)

\* C28 as stated: for every node id 0..255 and every command, the serialized
\* identifier AND 0xF80 equals the base identifier of the command.
C28_NodeKeepsFunctionCode ==
  (input.op = "serialize" /\ frame.tag = "Ok")
    => And(CANFrame_id(frame.val), Bits(\hf80)) = BaseId(input.command)

\* C29 as stated: the second interval pair of the envelope has a
\* microseconds component below 1,000,000, and seconds * 1,000,000 +
\* microseconds equals the requested interval (the sum is compared for
\* requested intervals below 2^31; a larger one already has to leave a
\* microseconds component below 1,000,000).
C29_IntervalNormalised ==
  bcm_message # None
    => LET pair == bcm_message.val.ival2
           req == bcm_call.microseconds
       IN  /\ Gt(Bits(1000000), pair.tv_usec)
           /\ (\A b \in req : b < 31)
                => /\ pair.tv_sec = Bits(Val(req) \div 1000000)
                   /\ pair.tv_usec = Bits(Val(req) % 1000000)

\* C30 as stated: constructing the async adapter never aborts; when a step
\* fails (opening the socket, switching to non-blocking mode, registering
\* the descriptor) the result is an OpenError, and an adapter is returned
\* only after all three steps succeeded, in that order.
C30_ConstructionNeverAborts ==
  (open_call.op = "adapter" /\ open_ret # None)
    => /\ open_ret.tag # "Panic"
       /\ (\E i \in 1..Len(open_trace) : ~open_trace[i].ok)
            => open_ret.tag = "Err"
       /\ open_ret.tag = "Ok"
            => /\ Len(open_trace) = 3
               /\ \A i \in 1..3 : open_trace[i].ok
               /\ open_trace[2].call = "set_nonblocking"
               /\ open_trace[3].call = "AsyncFd::new"

=============================================================================
